---- MODULE Spec2Model ----
\* Model of src/Lab3/pydantic.py: the Book / Author schema (pydantic v1 BaseModel
\* semantics: root_validator(pre=True), validator, Config.allow_mutation,
\* Config.anystr_lower), the two ISBN validators, and main()'s batch load.
\*
\* Text is modelled as a sequence of one-character strings, so that filtering,
\* lower-casing and the weighted checksum are computed character by character.
EXTENDS Integers, Sequences, FiniteSets, TLC

VARIABLES
    data,     \* main: the parsed JSON list; elsewhere the raw mapping passed to Book(**item)
    pc,       \* position of the running script / caller
    idx,      \* number of items of data the list comprehension has consumed
    books,    \* the Book objects that exist, in creation order
    output,   \* what has been printed, in order
    exc,      \* the exception that propagated out of the last call (NoExc if none)
    call      \* the last call made on the Book API, with its arguments

vars == <<data, pc, idx, books, output, exc, call>>

----------------------------------------------------------------------------
\* Bounds of the model.

\* longest tail appended to an ISBN prefix when enumerating isbn_10 inputs
MaxTail == 3
\* longest input list given to main()
MaxData == 3
\* most Book objects alive in the API client specification
MaxBooks == 2

----------------------------------------------------------------------------
\* JSON values, as json.load produces them, plus "absent" for a key that is
\* not in the mapping.

Absent == [t |-> "absent"]
Null == [t |-> "null"]
Str(s) == [t |-> "str", s |-> s]
Num(n) == [t |-> "num", n |-> n]
Bool(b) == [t |-> "bool", b |-> b]
Dict(name, verified) == [t |-> "dict", name |-> name, verified |-> verified]

FieldOrder == <<"title", "author", "publisher", "price",
                "isbn_10", "isbn_13", "subtitle", "author2">>
FieldNames == {FieldOrder[i] : i \in 1..Len(FieldOrder)}

\* exceptions: type, the payload attribute (title / value), message, and for
\* pydantic's ValidationError the list of (loc, error type) it collected
NoExc == [type |-> "none", value |-> Null, message |-> "", errs |-> <<>>]
MkExc(type, value, message) ==
    [type |-> type, value |-> value, message |-> message, errs |-> <<>>]

ISBNMissingError(title, message) == MkExc("ISBNMissingError", title, message)
ISBN10FormatError(value, message) == MkExc("ISBN10FormatError", value, message)
KeyError(key) == MkExc("KeyError", Str(<<>>), key)
ValidationError(errs) ==
    [type |-> "ValidationError", value |-> Null, message |-> "", errs |-> errs]

----------------------------------------------------------------------------
\* Text helpers.

Digits == <<"0", "1", "2", "3", "4", "5", "6", "7", "8", "9">>
UpperCase == <<"A", "B", "C", "D", "E", "F", "G", "H", "I", "J", "K", "L", "M",
               "N", "O", "P", "Q", "R", "S", "T", "U", "V", "W", "X", "Y", "Z">>
LowerCase == <<"a", "b", "c", "d", "e", "f", "g", "h", "i", "j", "k", "l", "m",
               "n", "o", "p", "q", "r", "s", "t", "u", "v", "w", "x", "y", "z">>

IsDigit(c) == \E i \in 1..10 : Digits[i] = c
DigitValue(c) == (CHOOSE i \in 1..10 : Digits[i] = c) - 1

\* str.lower() on one character
LowerChar(c) ==
    IF \E i \in 1..26 : UpperCase[i] = c
    THEN LowerCase[CHOOSE i \in 1..26 : UpperCase[i] = c]
    ELSE c

\* str.lower()
Lower(s) == [i \in 1..Len(s) |-> LowerChar(s[i])]

\* str(n) for an int
RECURSIVE NatToStr(_)
NatToStr(n) ==
    IF n < 10 THEN <<Digits[n + 1]>>
    ELSE NatToStr(n \div 10) \o <<Digits[(n % 10) + 1]>>
IntToStr(n) == IF n < 0 THEN <<"-">> \o NatToStr(-n) ELSE NatToStr(n)

\* int of a string of decimal digits
RECURSIVE DigitsToNat(_)
DigitsToNat(s) ==
    IF s = <<>> THEN 0
    ELSE 10 * DigitsToNat(SubSeq(s, 1, Len(s) - 1)) + DigitValue(s[Len(s)])

----------------------------------------------------------------------------
\* Config (class Book.Config).

\* variants: Config left at pydantic's defaults
allow_mutation_on == TRUE
anystr_lower_off == FALSE

allow_mutation == FALSE
anystr_lower == TRUE

----------------------------------------------------------------------------
\* Field coercion, as pydantic v1 derives it from the annotations of Book and
\* Author. A field's outcome is "ok" (with the coerced value), "err" (an error
\* pydantic collects into its ValidationError) or "raise" (an exception that
\* is not a ValueError/TypeError/AssertionError and so leaves the validation
\* at once).

Ok(v) == [st |-> "ok", v |-> v, err |-> "", exc |-> NoExc]
Err(v, e) == [st |-> "err", v |-> v, err |-> e, exc |-> NoExc]
Raise(v, x) == [st |-> "raise", v |-> v, err |-> "", exc |-> x]

\* str_validator: str stays, int / bool become str(v), anything else fails
str_validator(v) ==
    CASE v.t = "str" -> Ok(v)
      [] v.t = "num" -> Ok(Str(IntToStr(v.n)))
      [] v.t = "bool" -> Ok(Str(IF v.b THEN <<"T", "r", "u", "e">>
                                       ELSE <<"F", "a", "l", "s", "e">>))
      [] OTHER -> Err(v, "type_error.str")

\* float_validator: float(v); a bool is an int, a digit string parses
float_validator(v) ==
    CASE v.t = "num" -> Ok(v)
      [] v.t = "bool" -> Ok(Num(IF v.b THEN 1 ELSE 0))
      [] v.t = "str" /\ v.s # <<>> /\ (\A i \in 1..Len(v.s) : IsDigit(v.s[i]))
           -> Ok(Num(DigitsToNat(v.s)))
      [] OTHER -> Err(v, "type_error.float")

BOOL_TRUE == {<<"1">>, <<"o", "n">>, <<"t">>, <<"t", "r", "u", "e">>,
              <<"y">>, <<"y", "e", "s">>}
BOOL_FALSE == {<<"0">>, <<"o", "f", "f">>, <<"f">>, <<"f", "a", "l", "s", "e">>,
               <<"n">>, <<"n", "o">>}

\* bool_validator
bool_validator(v) ==
    CASE v.t = "bool" -> Ok(v)
      [] v.t = "num" /\ v.n \in {0, 1} -> Ok(Bool(v.n = 1))
      [] v.t = "str" /\ Lower(v.s) \in BOOL_TRUE -> Ok(Bool(TRUE))
      [] v.t = "str" /\ Lower(v.s) \in BOOL_FALSE -> Ok(Bool(FALSE))
      [] OTHER -> Err(v, "type_error.bool")

\* a required, non-Optional field: a missing key and an explicit null are
\* errors, and the field's validator is not reached
NotGiven(v) == v.t \in {"absent", "null"}
Required(v) ==
    IF v.t = "absent" THEN Err(Null, "value_error.missing")
    ELSE Err(Null, "type_error.none.not_allowed")

\* class Author: name: str, verified: bool. Author has no Config of its own,
\* so its text is not lower-cased.
AuthorInit(v) ==
    LET name == IF NotGiven(v.name) THEN Required(v.name)
                ELSE str_validator(v.name)
        verified == IF NotGiven(v.verified) THEN Required(v.verified)
                    ELSE bool_validator(v.verified)
    IN  IF name.st = "ok" /\ verified.st = "ok"
        THEN Ok([t |-> "Author", name |-> name.v, verified |-> verified.v])
        ELSE Err(v, "author.validation_error")

\* Optional[Author]: a mapping is passed to Author(**value); anything else
\* that is not a mapping is refused
author_validator(v) ==
    IF v.t = "dict" THEN AuthorInit(v) ELSE Err(v, "type_error.dict")

\* a str field of Book: str_validator, then Config.anystr_lower
book_str_validator(v) ==
    LET r == str_validator(v)
    IN  IF r.st = "ok" /\ anystr_lower THEN Ok(Str(Lower(r.v.s))) ELSE r

----------------------------------------------------------------------------
\* Book.isbn_10_valid (the @validator("isbn_10")).

IsbnChars == {"0", "1", "2", "3", "4", "5", "6", "7", "8", "9", "X", "x"}

\* variant: keeps the decimal digits only
FilterDigitsOnly(s) == SelectSeq(s, LAMBDA c : IsDigit(c))

\* chars = [c for c in value if c in "0123456789Xx"]
FilterChars(s) == SelectSeq(s, LAMBDA c : c \in IsbnChars)

char_to_int(char) == IF char \in {"X", "x"} THEN 10 ELSE DigitValue(char)

\* variant: the plain digit sum, without the weights
RECURSIVE ChecksumUnweighted(_, _)
ChecksumUnweighted(chars, k) ==
    IF k > Len(chars) THEN 0
    ELSE char_to_int(chars[k]) + ChecksumUnweighted(chars, k + 1)

\* sum((10 - i) * char_to_int(x) for i, x in enumerate(chars)); position i of
\* the code is index i + 1 here, so the weight of chars[k] is 11 - k
RECURSIVE ChecksumFrom(_, _)
ChecksumFrom(chars, k) ==
    IF k > Len(chars) THEN 0
    ELSE (11 - k) * char_to_int(chars[k]) + ChecksumFrom(chars, k + 1)

\* variant: refuses only a text that is too short
isbn_10_valid_min_length(value) ==
    IF value.t # "str"
    THEN Err(value, "type_error")
    ELSE LET chars == FilterChars(value.s)
         IN  IF Len(chars) < 10
             THEN Raise(value, ISBN10FormatError(value, "ISBN10 should be 10 digits."))
             ELSE IF ChecksumFrom(chars, 1) % 11 # 0
             THEN Raise(value, ISBN10FormatError(value,
                                  "ISBN10 digit sum should be divisible by 11."))
             ELSE Ok(value)

isbn_10_valid(value) ==
    IF value.t # "str"
    THEN \* iterating over None is a TypeError, which pydantic collects
         Err(value, "type_error")
    ELSE LET chars == FilterChars(value.s)
         IN  IF Len(chars) # 10
             THEN Raise(value, ISBN10FormatError(value, "ISBN10 should be 10 digits."))
             ELSE IF ChecksumFrom(chars, 1) % 11 # 0
             THEN Raise(value, ISBN10FormatError(value,
                                  "ISBN10 digit sum should be divisible by 11."))
             ELSE Ok(value)

\* Optional[str] without a class validator (isbn_13, subtitle)
optional_str(v) ==
    CASE v.t = "absent" -> Ok(Null)
      [] v.t = "null" -> Ok(Null)
      [] OTHER -> book_str_validator(v)

\* isbn_10: Optional[str] with the class validator. An absent key takes the
\* default None and is not validated; an explicit null is handed to the class
\* validator (pydantic v1 runs a field's own validators on None); a value is
\* coerced and lower-cased first and validated only if that succeeded.
isbn_10_field(v) ==
    CASE v.t = "absent" -> Ok(Null)
      [] v.t = "null" -> isbn_10_valid(Null)
      [] OTHER -> LET r == book_str_validator(v)
                  IN  IF r.st = "ok" THEN isbn_10_valid(r.v) ELSE r

optional_author(v) ==
    CASE v.t = "absent" -> Ok(Null)
      [] v.t = "null" -> Ok(Null)
      [] OTHER -> author_validator(v)

\* the declared fields of class Book
FieldResult(name, v) ==
    CASE name \in {"title", "author", "publisher", "price"} /\ NotGiven(v) -> Required(v)
      [] name \in {"title", "author", "publisher"} -> book_str_validator(v)
      [] name = "price" -> float_validator(v)
      [] name = "isbn_10" -> isbn_10_field(v)
      [] name \in {"isbn_13", "subtitle"} -> optional_str(v)
      [] name = "author2" -> optional_author(v)

----------------------------------------------------------------------------
\* Book.check_isbn_10_or_13 (the @root_validator(pre=True)): runs on the raw
\* mapping. values["title"] is a plain subscript: a mapping without the key
\* "title" raises KeyError there.

check_isbn_10_or_13(values) ==
    IF values["isbn_10"].t = "absent" /\ values["isbn_13"].t = "absent"
    THEN IF values["title"].t = "absent"
         THEN KeyError("title")
         ELSE ISBNMissingError(values["title"],
                               "Document should have either an ISBN10 or ISBN13")
    ELSE NoExc

----------------------------------------------------------------------------
\* Book(**item): the pre root validator, then every field in declaration
\* order. Errors of fields are collected; an exception raised by the isbn_10
\* validator leaves at once, whatever the earlier fields collected.

NoBook == [n \in FieldNames |-> Absent]

RECURSIVE CollectErrs(_, _)
CollectErrs(res, k) ==
    IF k > Len(FieldOrder) THEN <<>>
    ELSE (IF res[FieldOrder[k]].st = "err"
          THEN <<[loc |-> FieldOrder[k], type |-> res[FieldOrder[k]].err]>>
          ELSE <<>>) \o CollectErrs(res, k + 1)

BookInit(item) ==
    LET pre == check_isbn_10_or_13(item)
        res == [n \in FieldNames |-> FieldResult(n, item[n])]
        errs == CollectErrs(res, 1)
    IN  IF pre.type # "none"
        THEN [ok |-> FALSE, book |-> NoBook, exc |-> pre]
        ELSE IF res["isbn_10"].st = "raise"
        THEN [ok |-> FALSE, book |-> NoBook, exc |-> res["isbn_10"].exc]
        ELSE IF errs # <<>>
        THEN [ok |-> FALSE, book |-> NoBook, exc |-> ValidationError(errs)]
        ELSE [ok |-> TRUE, book |-> [n \in FieldNames |-> res[n].v], exc |-> NoExc]

----------------------------------------------------------------------------
\* Inputs.

\* the record of the sample data file in the module docstring
Isbn10Sample == <<"0", "7", "5", "3", "5", "5", "5", "1", "9", "0">>
Sample ==
    [title |-> Str(<<"Z", "e", "r", "o">>),
     author |-> Str(<<"P", "e", "t", "e", "r">>),
     publisher |-> Str(<<"B", "o", "o", "k", "s">>),
     price |-> Num(14),
     isbn_10 |-> Str(Isbn10Sample),
     isbn_13 |-> Str(<<"9", "7", "8", "-", "0", "7", "5">>),
     subtitle |-> Str(<<"N", "o", "t", "e", "s">>),
     author2 |-> Dict(Str(<<"P", "e", "t", "e", "r">>), Bool(TRUE))]

\* isbn_10 texts: the first eight digits of the sample, plain or hyphenated,
\* followed by every tail of at most MaxTail characters of TailChars
IsbnPrefixes == {<<"0", "7", "5", "3", "5", "5", "5", "1">>,
                 <<"0", "-", "7", "5", "3", "5", "-", "5", "5", "1">>}
TailChars == {"0", "4", "9", "X", "x", "-"}
Tails == UNION {[1..n -> TailChars] : n \in 0..MaxTail}
IsbnStrings == {p \o t : p \in IsbnPrefixes, t \in Tails}

Isbn10Values == {Absent, Null, Num(7)} \cup {Str(s) : s \in IsbnStrings}
Isbn13Values == {Absent, Null, Sample.isbn_13}
TitleValues == {Sample.title, Absent, Num(1)}
PriceValues == {Sample.price, Str(<<"a", "b">>)}

AuthorValues == {Sample.author, Null, Bool(TRUE)}
SubtitleValues == {Absent, Null, Sample.subtitle, Num(5)}
Author2Values == {Absent, Null, Sample.author2, Str(<<"P", "t">>),
                  Dict(Str(<<"P", "t">>), Str(<<"Y", "e", "s">>)),
                  Dict(Absent, Bool(FALSE)),
                  Dict(Num(3), Str(<<"m", "a", "y", "b", "e">>))}

\* raw mappings handed to Book(**item): every isbn_10 text against the ISBN
\* presence, title and price cases, and the remaining fields' cases against
\* the ISBN presence cases
RawInputs ==
    {[Sample EXCEPT !.isbn_10 = i, !.isbn_13 = j, !.title = t, !.price = p] :
        i \in Isbn10Values, j \in Isbn13Values, t \in TitleValues, p \in PriceValues}
    \cup
    {[Sample EXCEPT !.isbn_10 = i, !.isbn_13 = j, !.author = a, !.subtitle = s,
                    !.author2 = u] :
        i \in {Absent, Sample.isbn_10}, j \in Isbn13Values, a \in AuthorValues,
        s \in SubtitleValues, u \in Author2Values}

NoUpdate == [n \in FieldNames |-> Absent]
NoCall == [op |-> "none", target |-> 0, name |-> "", value |-> Absent,
           update |-> NoUpdate]

----------------------------------------------------------------------------
\* One construction: Book(**item) on one raw mapping.

InitValidate ==
    /\ data \in {<<r>> : r \in RawInputs}
    /\ pc = "call"
    /\ idx = 0
    /\ books = <<>>
    /\ output = <<>>
    /\ exc = NoExc
    /\ call = NoCall

Construct ==
    /\ pc = "call"
    /\ LET r == BookInit(data[1])
       IN  /\ pc' = IF r.ok THEN "returned" ELSE "raised"
           /\ books' = IF r.ok THEN <<r.book>> ELSE books
           /\ exc' = r.exc
    /\ call' = [NoCall EXCEPT !.op = "Book"]
    /\ UNCHANGED <<data, idx, output>>

NextValidate == Construct

SpecValidate == InitValidate /\ [][NextValidate]_vars

----------------------------------------------------------------------------
\* Properties of one construction (SpecValidate).

Called == pc # "call"
Input == data[1]

\* the ISBN-10 rule as the specification words it, computed on the text as
\* given: the qualifying characters, counted and weighted 10 down to 1
Qualifies(c) == IsDigit(c) \/ c = "X" \/ c = "x"
QualCount(s) == Cardinality({i \in 1..Len(s) : Qualifies(s[i])})
RECURSIVE WeightedSum(_, _)
WeightedSum(s, w) ==
    IF s = <<>> THEN 0
    ELSE IF Qualifies(Head(s))
    THEN w * (IF IsDigit(Head(s)) THEN DigitValue(Head(s)) ELSE 10)
         + WeightedSum(Tail(s), w - 1)
    ELSE WeightedSum(Tail(s), w)

DigitCountError ==
    /\ pc = "raised"
    /\ exc.type = "ISBN10FormatError"
    /\ exc.message = "ISBN10 should be 10 digits."
ChecksumError ==
    /\ pc = "raised"
    /\ exc.type = "ISBN10FormatError"
    /\ exc.message = "ISBN10 digit sum should be divisible by 11."
\* the isbn_10 field was accepted: no ISBN10FormatError, and no isbn_10 entry
\* among the errors of a ValidationError
Isbn10Accepted ==
    /\ exc.type \in {"none", "ValidationError"}
    /\ \A k \in 1..Len(exc.errs) : exc.errs[k].loc # "isbn_10"
    /\ pc = "returned" => books[1].isbn_10.t = "str"

\* C1: a raw mapping with neither the key isbn_10 nor the key isbn_13 makes
\* the construction fail with ISBNMissingError carrying the mapping's title,
\* whatever the other fields are (missing ones included).
C1_MissingIsbnRaisesISBNMissingError ==
    (Called /\ Input.isbn_10.t = "absent" /\ Input.isbn_13.t = "absent")
        => /\ pc = "raised"
           /\ exc.type = "ISBNMissingError"
           /\ exc.value = Input.title

\* C2: no constructed Book has both isbn_10 and isbn_13 without a value.
C2_BookCarriesAnIsbn ==
    \A k \in 1..Len(books) :
        ~(books[k].isbn_10 = Null /\ books[k].isbn_13 = Null)

\* C3: an isbn_10 text whose qualifying characters number exactly 10 and whose
\* weighted sum is divisible by 11 is accepted, whatever other characters are
\* interspersed.
C3_ValidIsbn10Accepted ==
    (Called /\ Input.isbn_10.t = "str"
            /\ QualCount(Input.isbn_10.s) = 10
            /\ WeightedSum(Input.isbn_10.s, 10) % 11 = 0)
        => Isbn10Accepted

C3_Witness ==
    /\ pc = "returned"
    /\ Input.isbn_10.t = "str"
    /\ Len(Input.isbn_10.s) > 10
    /\ \E i \in 1..Len(Input.isbn_10.s) : Input.isbn_10.s[i] = "X"
    /\ QualCount(Input.isbn_10.s) = 10
    /\ books[1].isbn_10.t = "str"

\* C4: an isbn_10 text whose qualifying characters do not number exactly 10
\* fails with the digit-count ISBN10FormatError, never the checksum one.
C4_WrongCountIsDigitCountError ==
    (Called /\ Input.isbn_10.t = "str" /\ QualCount(Input.isbn_10.s) # 10)
        => DigitCountError

C4_Witness ==
    /\ DigitCountError
    /\ Input.isbn_10.t = "str"
    /\ QualCount(Input.isbn_10.s) = 11
    /\ Input.title.t = "absent"

\* C5: an isbn_10 text with exactly 10 qualifying characters whose weighted
\* sum is not divisible by 11 fails with the checksum ISBN10FormatError.
C5_BadChecksumIsChecksumError ==
    (Called /\ Input.isbn_10.t = "str"
            /\ QualCount(Input.isbn_10.s) = 10
            /\ WeightedSum(Input.isbn_10.s, 10) % 11 # 0)
        => ChecksumError

C5_Witness ==
    /\ ChecksumError
    /\ Input.isbn_10.t = "str"
    /\ QualCount(Input.isbn_10.s) = 10
    /\ Len(Input.isbn_10.s) > 10

\* C8 as claimed: an accepted isbn_10 is stored as the input text unchanged,
\* and an ISBN10FormatError carries the input text unchanged.
C8_Isbn10StoredUnchanged ==
    (Called /\ Input.isbn_10.t = "str")
        => /\ pc = "returned" => books[1].isbn_10 = Input.isbn_10
           /\ exc.type = "ISBN10FormatError" => exc.value = Input.isbn_10

\* t is s with every upper-case letter replaced by its lower-case letter and
\* every other character kept in place
LowerCased(s, t) ==
    /\ Len(t) = Len(s)
    /\ \A i \in 1..Len(s) :
          IF \E k \in 1..26 : UpperCase[k] = s[i]
          THEN \E k \in 1..26 : UpperCase[k] = s[i] /\ LowerCase[k] = t[i]
          ELSE t[i] = s[i]

\* C8 as amended: an accepted isbn_10 is stored as the input text lower-cased
\* and otherwise unchanged (nothing stripped), and an ISBN10FormatError
\* carries that lower-cased text.
C8_Isbn10StoredLowerCased ==
    (Called /\ Input.isbn_10.t = "str")
        => /\ pc = "returned"
                => /\ books[1].isbn_10.t = "str"
                   /\ LowerCased(Input.isbn_10.s, books[1].isbn_10.s)
           /\ exc.type = "ISBN10FormatError"
                => /\ exc.value.t = "str"
                   /\ LowerCased(Input.isbn_10.s, exc.value.s)

C8_Witness ==
    /\ pc = "returned"
    /\ Input.isbn_10.t = "str"
    /\ Input.isbn_10.s[Len(Input.isbn_10.s)] = "X"
    /\ \E i \in 1..Len(Input.isbn_10.s) : Input.isbn_10.s[i] = "-"
    /\ books[1].isbn_10 # Input.isbn_10

----------------------------------------------------------------------------
\* The Book API as a caller uses it: construction, attribute assignment
\* (BaseModel.__setattr__ under Config.allow_mutation) and copy(update=...).
\* The caller catches what a call raises and may go on.

SampleX == [Sample EXCEPT !.isbn_10 = Str(<<"0", "7", "5", "3", "5", "5", "5", "1",
                                            "-", "4", "X">>),
                          !.isbn_13 = Absent]
NoIsbn == [Sample EXCEPT !.isbn_10 = Absent, !.isbn_13 = Absent]
NoIsbnNoTitle == [NoIsbn EXCEPT !.title = Absent]
BadChecksum == [Sample EXCEPT !.isbn_10 = Str(<<"0", "7", "5", "3", "5", "5", "5", "1",
                                                "9", "1">>)]
BadPrice == [Sample EXCEPT !.price = Str(<<"a", "b">>)]
OnlyIsbn13 == [Sample EXCEPT !.isbn_10 = Absent, !.author2 = Absent]
NullIsbn13 == [Sample EXCEPT !.isbn_10 = Absent, !.isbn_13 = Null]

ApiItems == {Sample, SampleX, NoIsbn, BadChecksum, OnlyIsbn13, NullIsbn13}

Updates ==
    {NoUpdate,
     [NoUpdate EXCEPT !.isbn_10 = Str(<<"1", "2", "3">>)],
     [NoUpdate EXCEPT !.title = Str(<<"N", "e", "w">>), !.price = Num(9)],
     [NoUpdate EXCEPT !.isbn_10 = Null, !.isbn_13 = Null]}

AttrNames == {"title", "isbn_10", "rating"}
AttrValues == {Str(<<"N", "e", "w">>), Null}

\* variant: a copy that leaves out the fields without a value
CopyValuesExcludeNone(book, update) ==
    [n \in FieldNames |->
        IF update[n].t # "absent" THEN update[n]
        ELSE IF book[n] = Null THEN Absent ELSE book[n]]

\* dict(self._iter(...), **update): the fields of the original, overridden by
\* the entries of update, which are taken as given (copy does not validate)
CopyValues(book, update) ==
    [n \in FieldNames |-> IF update[n].t # "absent" THEN update[n] ELSE book[n]]

\* Book.dict(exclude=...): the fields but the excluded ones, a nested Author
\* turned into a mapping
BookDict(book, exclude) ==
    [n \in FieldNames \ exclude |->
        IF book[n].t = "Author" THEN Dict(book[n].name, book[n].verified) ELSE book[n]]

InitApi ==
    /\ data = <<>>
    /\ pc = "client"
    /\ idx = 0
    /\ books = <<>>
    /\ output = <<>>
    /\ exc = NoExc
    /\ call = NoCall

\* Book(**item)
ApiConstruct ==
    /\ Len(books) < MaxBooks
    /\ \E item \in ApiItems :
         LET r == BookInit(item)
         IN  /\ data' = <<item>>
             /\ pc' = IF r.ok THEN "returned" ELSE "raised"
             /\ books' = IF r.ok THEN Append(books, r.book) ELSE books
             /\ exc' = r.exc
    /\ call' = [NoCall EXCEPT !.op = "Book"]
    /\ UNCHANGED <<idx, output>>

\* books[target].<name> = value
SetAttr ==
    \E target \in 1..Len(books), name \in AttrNames, value \in AttrValues :
        /\ call' = [NoCall EXCEPT !.op = "setattr", !.target = target,
                                  !.name = name, !.value = value]
        /\ IF name \notin FieldNames
           THEN /\ exc' = MkExc("ValueError", Null, "object has no field")
                /\ pc' = "raised"
                /\ books' = books
           ELSE IF ~allow_mutation
           THEN /\ exc' = MkExc("TypeError", Null,
                                "is immutable and does not support item assignment")
                /\ pc' = "raised"
                /\ books' = books
           ELSE /\ exc' = NoExc
                /\ pc' = "returned"
                /\ books' = [books EXCEPT ![target][name] = value]
        /\ UNCHANGED <<data, idx, output>>

\* books[target].copy(update=update)
Copy ==
    /\ Len(books) < MaxBooks
    /\ \E target \in 1..Len(books), update \in Updates :
        /\ call' = [NoCall EXCEPT !.op = "copy", !.target = target,
                                  !.update = update]
        /\ books' = Append(books, CopyValues(books[target], update))
        /\ exc' = NoExc
        /\ pc' = "returned"
    /\ UNCHANGED <<data, idx, output>>

NextApi == ApiConstruct \/ SetAttr \/ Copy

SpecApi == InitApi /\ [][NextApi]_vars

----------------------------------------------------------------------------
\* main(): the list comprehension over the parsed file, then the four prints.
\* An exception is not caught anywhere: it ends the script.

MainItems == {Sample, SampleX, NoIsbn, NoIsbnNoTitle, BadChecksum, BadPrice}

InitMain ==
    /\ data \in UNION {[1..n -> MainItems] : n \in 0..MaxData}
    /\ pc = "load"
    /\ idx = 0
    /\ books = <<>>
    /\ output = <<>>
    /\ exc = NoExc
    /\ call = NoCall

\* variant: a failing item is skipped and the load goes on
LoadItemSkipsBad ==
    /\ pc = "load"
    /\ idx < Len(data)
    /\ LET r == BookInit(data[idx + 1])
       IN  /\ idx' = idx + 1
           /\ books' = IF r.ok THEN Append(books, r.book) ELSE books
           /\ pc' = "load"
           /\ exc' = exc
    /\ UNCHANGED <<data, output, call>>

\* one iteration of [Book(**item) for item in data]; a failing item ends the
\* comprehension and the list built so far is dropped
LoadItem ==
    /\ pc = "load"
    /\ idx < Len(data)
    /\ LET r == BookInit(data[idx + 1])
       IN  /\ idx' = idx + 1
           /\ books' = IF r.ok THEN Append(books, r.book) ELSE <<>>
           /\ pc' = IF r.ok THEN "load" ELSE "raised"
           /\ exc' = r.exc
    /\ UNCHANGED <<data, output, call>>

\* print(books)
PrintBooks ==
    /\ pc = "load"
    /\ idx = Len(data)
    /\ output' = Append(output, [kind |-> "list", items |-> books])
    /\ pc' = "print_first"
    /\ UNCHANGED <<data, idx, books, exc, call>>

\* print(books[0])
PrintFirst ==
    /\ pc = "print_first"
    /\ IF Len(books) < 1
       THEN /\ exc' = MkExc("IndexError", Null, "list index out of range")
            /\ pc' = "raised"
            /\ output' = output
       ELSE /\ output' = Append(output, [kind |-> "book", items |-> <<books[1]>>])
            /\ pc' = "print_dict"
            /\ exc' = exc
    /\ UNCHANGED <<data, idx, books, call>>

\* print(books[0].dict(exclude={"price"}))
PrintDict ==
    /\ pc = "print_dict"
    /\ output' = Append(output, [kind |-> "dict",
                                 items |-> <<BookDict(books[1], {"price"})>>])
    /\ pc' = "print_copy"
    /\ UNCHANGED <<data, idx, books, exc, call>>

\* print(books[1].copy())
PrintCopy ==
    /\ pc = "print_copy"
    /\ IF Len(books) < 2
       THEN /\ exc' = MkExc("IndexError", Null, "list index out of range")
            /\ pc' = "raised"
            /\ output' = output
       ELSE /\ output' = Append(output, [kind |-> "book",
                                         items |-> <<CopyValues(books[2], NoUpdate)>>])
            /\ pc' = "done"
            /\ exc' = exc
    /\ UNCHANGED <<data, idx, books, call>>

NextMain == LoadItem \/ PrintBooks \/ PrintFirst \/ PrintDict \/ PrintCopy

SpecMain == InitMain /\ [][NextMain]_vars

----------------------------------------------------------------------------
\* Properties of the Book API (SpecApi).

\* C6: assigning to a field of a Book fails with the immutability TypeError
\* and leaves every field of every Book as it was.
C6_SetFieldFailsAndChangesNothing ==
    [][(call'.op = "setattr" /\ call'.name \in FieldNames)
          => /\ pc' = "raised"
             /\ exc'.type = "TypeError"
             /\ books' = books]_vars

C6_Witness ==
    /\ call.op = "setattr"
    /\ call.name = "isbn_10"
    /\ call.target \in 1..Len(books)
    /\ exc.type = "TypeError"
    /\ books[call.target].isbn_10 # call.value

\* C7: copy() without overrides yields a Book equal to the original in every
\* field, and copy() with or without overrides leaves the Books that existed
\* as they were.
C7_CopyEqualsOriginalAndKeepsIt ==
    [][call'.op = "copy"
          => /\ Len(books') = Len(books) + 1
             /\ \A k \in 1..Len(books) : books'[k] = books[k]
             /\ call'.update = NoUpdate
                  => \A n \in FieldNames :
                        books'[Len(books')][n] = books[call'.target][n]]_vars

C7_Witness ==
    /\ call.op = "copy"
    /\ call.update = NoUpdate
    /\ Len(books) = 2
    /\ call.target = 1
    /\ books[2] = books[1]
    /\ books[1].isbn_10 = Null

C7_WitnessUpdate ==
    /\ call.op = "copy"
    /\ call.update # NoUpdate
    /\ Len(books) = 2
    /\ books[2] # books[call.target]

\* C10: every Book that exists, constructed or copied with overrides, has an
\* isbn_10 that is absent or satisfies the ISBN-10 length and checksum rule.
C10_EveryIsbn10SatisfiesRule ==
    \A k \in 1..Len(books) :
        books[k].isbn_10 # Null
            => /\ books[k].isbn_10.t = "str"
               /\ QualCount(books[k].isbn_10.s) = 10
               /\ WeightedSum(books[k].isbn_10.s, 10) % 11 = 0

----------------------------------------------------------------------------
\* Properties of main() (SpecMain).

BadItems == {k \in 1..Len(data) : ~BookInit(data[k]).ok}
FirstBad == CHOOSE k \in BadItems : \A j \in BadItems : k <= j

\* C9: the records are validated in input order; the first one that fails
\* ends the run with its exception, no later record is validated, and nothing
\* is ever printed, not even for the valid records before it.
C9_FirstBadRecordAbortsRun ==
    /\ pc = "load" => /\ Len(books) = idx
                      /\ \A k \in 1..idx : books[k] = BookInit(data[k]).book
    /\ BadItems # {}
         => /\ output = <<>>
            /\ idx <= FirstBad
            /\ pc \in {"load", "raised"}
            /\ pc = "load" <=> idx < FirstBad
            /\ pc = "raised" => exc = BookInit(data[FirstBad]).exc

C9_Witness ==
    /\ pc = "raised"
    /\ exc.type = "ISBNMissingError"
    /\ idx = 2
    /\ Len(data) = 3
    /\ BookInit(data[1]).ok
    /\ BookInit(data[3]).ok
    /\ output = <<>>

====
